---- MODULE Spec2Model ----
(***************************************************************************)
(* Model of the crate with-str-bytes (src/src/lib.rs).                     *)
(*                                                                         *)
(* with_str_bytes(s, f) hands the bytes of the string s to the caller's    *)
(* function f and, through the drop of a local Guard, puts the string back *)
(* into valid UTF-8 on every way out.  The state is the bytes of the       *)
(* strings, the stack of active with_str_bytes frames (the Guard's fields, *)
(* the locals and the position in the code) and what the last call handed  *)
(* to its caller.  f is the environment: it writes any byte anywhere in    *)
(* the view, any number of times, and then returns a value or panics.      *)
(***************************************************************************)
EXTENDS Integers, Sequences, FiniteSets, TLC

VARIABLES bufs, stack, outcome

vars == <<bufs, stack, outcome>>

(***************************************************************************)
(* Bounds of the model.                                                    *)
(***************************************************************************)
\* Longest string the caller passes.
MaxLen == 3

\* Longest string when f itself calls with_str_bytes.
MaxNestLen == 1

\* The strings of the caller.
Buffers == {"A", "B"}

\* Byte values f writes and strings are made of: NUL, 'a', a continuation
\* byte (0x82), a byte that is never valid (0xC0), the lead byte of a
\* two-byte sequence (0xC3) and the lead byte of a three-byte one (0xE2).
ByteAlphabet == {0, 97, 130, 192, 195, 226}

\* Values f returns, and payloads f panics with.
RetValues == {"r1", "r2"}
Payloads == {"Oh no", "boom"}

(***************************************************************************)
(* core::str::from_utf8, as the Guard's drop uses it.                      *)
(***************************************************************************)
IsCont(b) == b >= 128 /\ b <= 191

\* Width of the sequence a first byte announces; 0 for a byte that can
\* start nothing (a continuation byte, 0xC0, 0xC1, 0xF5..0xFF).
Utf8CharWidth(b) ==
    IF b < 128 THEN 1
    ELSE IF b >= 194 /\ b <= 223 THEN 2
    ELSE IF b >= 224 /\ b <= 239 THEN 3
    ELSE IF b >= 240 /\ b <= 244 THEN 4
    ELSE 0

\* The second byte of a sequence, which also excludes overlong forms,
\* surrogates and code points above U+10FFFF.
SecondOk(first, b) ==
    IF first = 224 THEN b >= 160 /\ b <= 191
    ELSE IF first = 237 THEN b >= 128 /\ b <= 159
    ELSE IF first = 240 THEN b >= 144 /\ b <= 191
    ELSE IF first = 244 THEN b >= 128 /\ b <= 143
    ELSE IsCont(b)

Utf8Ok == [ok |-> TRUE, valid_up_to |-> 0, error_len |-> 0]

\* An error that reports the byte that did not fit, not the start of the
\* sequence it was read in.
Utf8ErrorAtBadByte(k, n) ==
    [ok |-> FALSE, valid_up_to |-> k + n, error_len |-> n]

\* error_len 0 stands for None: the input ends inside a sequence.
Utf8Error(k, n) == [ok |-> FALSE, valid_up_to |-> k, error_len |-> n]

\* Validation of bytes from the 0-based offset i, i being the start of a
\* sequence.  The error carries the offset of the start of the sequence
\* that failed and how many of its bytes were read as part of it.
RECURSIVE run_utf8_validation(_, _)
run_utf8_validation(bytes, i) ==
    LET n == Len(bytes)
        at(j) == bytes[j + 1]
        w == Utf8CharWidth(at(i))
    IN  IF i >= n THEN Utf8Ok
        ELSE IF w = 0 THEN Utf8Error(i, 1)
        ELSE IF w = 1 THEN run_utf8_validation(bytes, i + 1)
        ELSE IF i + 1 >= n THEN Utf8Error(i, 0)
        ELSE IF ~SecondOk(at(i), at(i + 1)) THEN Utf8Error(i, 1)
        ELSE IF w = 2 THEN run_utf8_validation(bytes, i + 2)
        ELSE IF i + 2 >= n THEN Utf8Error(i, 0)
        ELSE IF ~IsCont(at(i + 2)) THEN Utf8Error(i, 2)
        ELSE IF w = 3 THEN run_utf8_validation(bytes, i + 3)
        ELSE IF i + 3 >= n THEN Utf8Error(i, 0)
        ELSE IF ~IsCont(at(i + 3)) THEN Utf8Error(i, 3)
        ELSE run_utf8_validation(bytes, i + 4)

from_utf8(bytes) == run_utf8_validation(bytes, 0)

\* The standing invariant of a str.
IsUtf8(bytes) == from_utf8(bytes).ok

\* The strings the caller can own: valid UTF-8 of at most n bytes.
Texts(n) ==
    {t \in UNION {[1..k -> ByteAlphabet] : k \in 0..n} : IsUtf8(t)}

(***************************************************************************)
(* The frame of one call of with_str_bytes.                                *)
(***************************************************************************)
NoRet == "-"
NoMsg == [text |-> "-", valid_up_to |-> 0, error_len |-> 0]

\* The payload of panic!("Oh no") and the like, raised inside f.
PayloadMsg(m) == [text |-> m, valid_up_to |-> 0, error_len |-> 0]

\* The payload of the Guard's panic!: the text (written here without its
\* back quotes) and the Utf8Error it formats.
InvalidMsg(e) ==
    [text |-> "with_bytes encountered invalid utf-8",
     valid_up_to |-> e.valid_up_to, error_len |-> e.error_len]

\* Positions of a frame:
\*   "guarded"     the Guard is built, f not yet called
\*   "in_f"        inside f
\*   "f_returned"  f returned and ret holds its value
\*   "scope_exit"  panicking is cleared, the locals go out of scope
\*   "unwinding"   f panicked, the unwinding drops the locals
\*   "drop_panic"  inside drop, the tail is zeroed, at the panic!
\*   "returning"   drop is over, the call returns ret
\*   "propagating" drop is over, a panic leaves the call
\*   "aborted"     a panic was raised while another one was unwinding
\* s, panicking, pc, ret, panic and err are the program's; pre, left,
\* fexit, fret, fmsg, fcalls, drops, raises, validated and violation record
\* the history of the call: the bytes at the call and those f left, how f
\* ended and with what, how often f was called, drop was run and a panic
\* was raised, whether drop validated the bytes ("no", "passed", "failed"),
\* whether drop raised its panic, the panic of a call made by f that f
\* let through, and how the call before, on the same string, was left.
\* A Guard built as if f had already completed.
GuardNotArmed(view) == [bytes |-> view, panicking |-> FALSE]

Guard(view) == [bytes |-> view, panicking |-> TRUE]

\* How the call before this one was left, when it was on the same string.
PrevExit(b) == IF outcome.s = b THEN outcome.exit ELSE "none"

NewFrame(b) ==
    [s |-> Guard(b).bytes, panicking |-> Guard(b).panicking, pc |-> "guarded",
     ret |-> NoRet, panic |-> NoMsg, err |-> Utf8Ok,
     pre |-> bufs[b], left |-> <<>>, fexit |-> "none", fret |-> NoRet,
     fmsg |-> NoMsg, fcalls |-> 0, drops |-> 0, raises |-> 0,
     validated |-> "no", violation |-> FALSE, inner |-> NoMsg,
     after |-> PrevExit(b)]

Depth == Len(stack)
Active == Depth > 0
Top == stack[Depth]
SetTop(f) == [stack EXCEPT ![Depth] = f]

\* The bytes the Guard of the running frame borrows.
View == bufs[Top.s]
\* A Guard that is not scoped to its own call: every Guard writes to the
\* bytes of the outermost call.
SetViewOutermost(bytes) == [bufs EXCEPT ![stack[1].s] = bytes]

SetView(bytes) == [bufs EXCEPT ![Top.s] = bytes]

\* What the last call handed to the caller: a value or a panic; s and exit
\* record which string the call was on and which way it was left
\* ("returned", "violation": the panic of the Guard, "propagated": the
\* panic of f).
NoOutcome ==
    [kind |-> "none", ret |-> NoRet, msg |-> NoMsg, s |-> "-", exit |-> "none"]

\* The way the running call is left.
ExitKind(f) ==
    IF f.pc = "returning" THEN "returned"
    ELSE IF f.violation THEN "violation"
    ELSE "propagated"

(***************************************************************************)
(* with_str_bytes, lines 61-67.                                            *)
(***************************************************************************)
\* The caller calls with_str_bytes(&mut b, f): the Guard is built over the
\* bytes of b with panicking = true.
Call(b) ==
    /\ ~Active
    /\ stack' = <<NewFrame(b)>>
    /\ outcome' = NoOutcome
    /\ UNCHANGED bufs

\* A call that goes on without having called f.
InvokeSkipsF ==
    /\ Active /\ Top.pc = "guarded"
    /\ stack' = SetTop([Top EXCEPT !.pc = "f_returned"])
    /\ UNCHANGED <<bufs, outcome>>

\* f(&mut guard.bytes) is entered.
Invoke ==
    /\ Active /\ Top.pc = "guarded"
    /\ stack' = SetTop([Top EXCEPT !.pc = "in_f", !.fcalls = @ + 1])
    /\ UNCHANGED <<bufs, outcome>>

\* f stores the byte v at index i of the view.
FWrite(i, v) ==
    /\ Active /\ Top.pc = "in_f"
    /\ i \in 1..Len(View)
    /\ bufs' = SetView([View EXCEPT ![i] = v])
    /\ UNCHANGED <<stack, outcome>>

\* f returns r, which `let ret` captures.
FReturn(r) ==
    /\ Active /\ Top.pc = "in_f"
    /\ stack' = SetTop([Top EXCEPT !.pc = "f_returned", !.ret = r,
                                   !.fexit = "returned", !.fret = r,
                                   !.left = View])
    /\ UNCHANGED <<bufs, outcome>>

\* f panics with payload m; the unwinding starts.
FPanic(m) ==
    /\ Active /\ Top.pc = "in_f"
    /\ stack' = SetTop([Top EXCEPT !.pc = "unwinding",
                                   !.panic = PayloadMsg(m),
                                   !.fexit = "panicked",
                                   !.fmsg = PayloadMsg(m),
                                   !.raises = @ + 1, !.left = View])
    /\ UNCHANGED <<bufs, outcome>>

\* A call that forgets its Guard (mem::forget) instead of dropping it.
CompleteForgetsGuard ==
    /\ Active /\ Top.pc = "f_returned"
    /\ stack' = SetTop([Top EXCEPT !.pc = "returning", !.panicking = FALSE])
    /\ UNCHANGED <<bufs, outcome>>

\* The call without its line 66: panicking stays true.
CompleteKeepsPanicking ==
    /\ Active /\ Top.pc = "f_returned"
    /\ stack' = SetTop([Top EXCEPT !.pc = "scope_exit"])
    /\ UNCHANGED <<bufs, outcome>>

\* guard.panicking = false, reached only when f returned.
Complete ==
    /\ Active /\ Top.pc = "f_returned"
    /\ stack' = SetTop([Top EXCEPT !.pc = "scope_exit", !.panicking = FALSE])
    /\ UNCHANGED <<bufs, outcome>>

(***************************************************************************)
(* Guard::drop, lines 47-58.  It runs when the Guard goes out of scope:    *)
(* at the end of with_str_bytes, or while a panic of f unwinds through it. *)
(***************************************************************************)
InDrop == Active /\ Top.pc \in {"scope_exit", "unwinding"}

\* A fill with the byte 0xFF, which no UTF-8 text holds.
ZeroFillOnes(bytes, from) ==
    [i \in 1..Len(bytes) |-> IF i > from THEN 255 ELSE bytes[i]]

\* A sanitising that cuts the bytes off instead of zeroing them.
ZeroFillTruncates(bytes, from) == SubSeq(bytes, 1, from)

\* A fill that starts one byte late.
ZeroFillLate(bytes, from) ==
    [i \in 1..Len(bytes) |-> IF i > from + 1 THEN 0 ELSE bytes[i]]

\* for byte in &mut bytes[from..] { *byte = 0 }
ZeroFill(bytes, from) ==
    [i \in 1..Len(bytes) |-> IF i > from THEN 0 ELSE bytes[i]]

\* Where a frame goes once its drop is over.
AfterDrop(f) == IF f.panic = NoMsg THEN "returning" ELSE "propagating"

\* A drop that treats a panic of f like invalid bytes: it keeps the valid
\* prefix f left and zeroes the rest.
DropZeroAllKeepsPrefix ==
    /\ InDrop /\ Top.panicking
    /\ bufs' = SetView(IF from_utf8(View).ok THEN View
                       ELSE ZeroFill(View, from_utf8(View).valid_up_to))
    /\ stack' = SetTop([Top EXCEPT !.pc = AfterDrop(Top), !.drops = @ + 1])
    /\ UNCHANGED outcome

\* if self.panicking: every byte is zeroed.
DropZeroAll ==
    /\ InDrop /\ Top.panicking
    /\ bufs' = SetView(ZeroFill(View, 0))
    /\ stack' = SetTop([Top EXCEPT !.pc = AfterDrop(Top), !.drops = @ + 1])
    /\ UNCHANGED outcome

\* A drop that does not validate what a completed f left.
DropValidUnchecked ==
    /\ InDrop /\ ~Top.panicking
    /\ stack' = SetTop([Top EXCEPT !.pc = AfterDrop(Top), !.drops = @ + 1])
    /\ UNCHANGED <<bufs, outcome>>

\* else, from_utf8 is Ok: drop does nothing.
DropValid ==
    /\ InDrop /\ ~Top.panicking
    /\ from_utf8(View).ok
    /\ stack' = SetTop([Top EXCEPT !.pc = AfterDrop(Top), !.drops = @ + 1,
                                   !.validated = "passed"])
    /\ UNCHANGED <<bufs, outcome>>

\* A drop that panics as soon as from_utf8 fails: the fill is never reached.
DropZeroTailPanicsFirst ==
    /\ InDrop /\ ~Top.panicking
    /\ ~from_utf8(View).ok
    /\ stack' = SetTop([Top EXCEPT !.pc = "drop_panic", !.drops = @ + 1,
                                   !.validated = "failed",
                                   !.err = from_utf8(View)])
    /\ UNCHANGED <<bufs, outcome>>

\* A drop that zeroes the invalid tail and raises nothing.
DropZeroTailSilent ==
    /\ InDrop /\ ~Top.panicking
    /\ ~from_utf8(View).ok
    /\ bufs' = SetView(ZeroFill(View, from_utf8(View).valid_up_to))
    /\ stack' = SetTop([Top EXCEPT !.pc = AfterDrop(Top), !.drops = @ + 1,
                                   !.validated = "failed",
                                   !.err = from_utf8(View)])
    /\ UNCHANGED outcome

\* A drop that zeroes the whole string when the bytes are invalid.
DropZeroTailWhole ==
    /\ InDrop /\ ~Top.panicking
    /\ ~from_utf8(View).ok
    /\ bufs' = SetView(ZeroFill(View, 0))
    /\ stack' = SetTop([Top EXCEPT !.pc = "drop_panic", !.drops = @ + 1,
                                   !.validated = "failed",
                                   !.err = from_utf8(View)])
    /\ UNCHANGED outcome

\* else if let Err(e): the bytes from e.valid_up_to() on are zeroed.
DropZeroTail ==
    /\ InDrop /\ ~Top.panicking
    /\ ~from_utf8(View).ok
    /\ bufs' = SetView(ZeroFill(View, from_utf8(View).valid_up_to))
    /\ stack' = SetTop([Top EXCEPT !.pc = "drop_panic", !.drops = @ + 1,
                                   !.validated = "failed",
                                   !.err = from_utf8(View)])
    /\ UNCHANGED outcome

\* panic!("`with_bytes` encountered invalid utf-8: {}", e).  A panic raised
\* while another one unwinds aborts the process.
DropPanic ==
    /\ Active /\ Top.pc = "drop_panic"
    /\ stack' = SetTop([Top EXCEPT
                          !.pc = IF Top.panic = NoMsg THEN "propagating"
                                 ELSE "aborted",
                          !.panic = InvalidMsg(Top.err),
                          !.raises = @ + 1, !.violation = TRUE])
    /\ UNCHANGED <<bufs, outcome>>

\* Control leaves with_str_bytes: the caller gets ret, or the panic.
Leave ==
    /\ Active /\ Top.pc \in {"returning", "propagating"}
    /\ Depth = 1
    /\ stack' = <<>>
    /\ outcome' = IF Top.pc = "returning"
                  THEN [kind |-> "returned", ret |-> Top.ret, msg |-> NoMsg,
                        s |-> Top.s, exit |-> ExitKind(Top)]
                  ELSE [kind |-> "panicked", ret |-> NoRet, msg |-> Top.panic,
                        s |-> Top.s, exit |-> ExitKind(Top)]
    /\ UNCHANGED bufs

(***************************************************************************)
(* f calling with_str_bytes itself.  The outer call holds the &mut str of  *)
(* its string, so f can only pass a string no active call is working on.   *)
(***************************************************************************)
Borrowed == {stack[d].s : d \in 1..Depth}

\* Inside f: with_str_bytes(&mut b, g).
FCall(b) ==
    /\ Active /\ Top.pc = "in_f"
    /\ b \notin Borrowed
    /\ stack' = Append(stack, NewFrame(b))
    /\ UNCHANGED <<bufs, outcome>>

\* The call made by f returns its value to f, which goes on.
InnerReturns ==
    /\ Depth > 1 /\ Top.pc = "returning"
    /\ stack' = SubSeq(stack, 1, Depth - 1)
    /\ UNCHANGED <<bufs, outcome>>

\* The call made by f panics and f catches the panic (catch_unwind).
InnerPanicCaught ==
    /\ Depth > 1 /\ Top.pc = "propagating"
    /\ stack' = SubSeq(stack, 1, Depth - 1)
    /\ UNCHANGED <<bufs, outcome>>

\* The call made by f panics and f lets the panic through: f ends with it.
InnerPanicPropagates ==
    /\ Depth > 1 /\ Top.pc = "propagating"
    /\ LET outer == stack[Depth - 1]
       IN  stack' = [SubSeq(stack, 1, Depth - 1) EXCEPT ![Depth - 1] =
                       [outer EXCEPT !.pc = "unwinding",
                                     !.panic = Top.panic,
                                     !.fexit = "panicked",
                                     !.fmsg = Top.panic,
                                     !.inner = Top.panic,
                                     !.raises = @ + 1,
                                     !.left = bufs[outer.s]]]
    /\ UNCHANGED <<bufs, outcome>>

(***************************************************************************)
(* The program: a caller that calls with_str_bytes on its strings, one     *)
(* call after the other, catching the panics (as the tests do).            *)
(***************************************************************************)
Init ==
    /\ bufs \in {b \in [Buffers -> Texts(MaxLen)] : b["B"] = <<>>}
    /\ stack = <<>>
    /\ outcome = NoOutcome

Next ==
    \/ \E b \in Buffers : Call(b)
    \/ Invoke
    \/ \E i \in 1..MaxLen, v \in ByteAlphabet : FWrite(i, v)
    \/ \E r \in RetValues : FReturn(r)
    \/ \E m \in Payloads : FPanic(m)
    \/ Complete
    \/ DropZeroAll
    \/ DropValid
    \/ DropZeroTail
    \/ DropPanic
    \/ Leave

Spec == Init /\ [][Next]_vars

\* The same caller, with functions f that call with_str_bytes on another
\* string of the caller.
InitNested ==
    /\ bufs \in [Buffers -> Texts(MaxNestLen)]
    /\ stack = <<>>
    /\ outcome = NoOutcome

NextNested ==
    \/ Next
    \/ \E b \in Buffers : FCall(b)
    \/ InnerReturns
    \/ InnerPanicCaught
    \/ InnerPanicPropagates

SpecNested == InitNested /\ [][NextNested]_vars

(***************************************************************************)
(* Properties.                                                             *)
(***************************************************************************)
\* Control is about to leave the running call of with_str_bytes.
Leaving == Active /\ Top.pc \in {"returning", "propagating"}

\* The drop of the running call's Guard is over.
Dropped == Active /\ Top.pc \in {"returning", "propagating", "aborted"}

AllZero(bytes) == \A i \in 1..Len(bytes) : bytes[i] = 0

\* C1: a string that is valid UTF-8 at the call is valid UTF-8 when control
\* leaves with_str_bytes, whatever f wrote and however f ended (return of
\* a value, panic of the Guard, panic of f), and so it is between calls.
C1_ValidOnEveryExit ==
    /\ Leaving => IsUtf8(View)
    /\ ~Active => \A b \in Buffers : IsUtf8(bufs[b])

\* f left invalid bytes after a valid first byte, and the call is left.
C1_Witness ==
    /\ Leaving /\ ~IsUtf8(Top.left) /\ IsUtf8(Top.pre)
    /\ from_utf8(Top.left).valid_up_to >= 1

\* C2: when f returns and leaves valid UTF-8, with_str_bytes returns the
\* value f returned, no panic is raised and the string holds, byte for
\* byte, what f left (drop wrote nothing).
C2_ValidReturnsResult ==
    (Dropped /\ Top.fexit = "returned" /\ IsUtf8(Top.left)) =>
        /\ Top.pc = "returning"
        /\ Top.ret = Top.fret /\ Top.ret \in RetValues
        /\ Top.raises = 0 /\ Top.panic = NoMsg
        /\ View = Top.left

\* f wrote other valid bytes than the call started with, and returned.
C2_Witness ==
    /\ Leaving /\ Top.fexit = "returned" /\ IsUtf8(Top.left)
    /\ Top.left # Top.pre /\ ~AllZero(Top.left)

\* C3: when f returns and leaves bytes whose first invalid sequence starts at
\* offset k, then at the end of the call the bytes before k are those f
\* left, every byte from k on is 0, and instead of a value the panic of the
\* Guard leaves the call, reporting offset k.
C3_InvalidZeroesTail ==
    (Dropped /\ Top.fexit = "returned" /\ ~IsUtf8(Top.left)) =>
        LET k == from_utf8(Top.left).valid_up_to
        IN  /\ Len(View) = Len(Top.left)
            /\ \A i \in 1..Len(View) :
                 View[i] = IF i <= k THEN Top.left[i] ELSE 0
            /\ Top.pc = "propagating"
            /\ Top.violation
            /\ Top.panic = InvalidMsg(from_utf8(Top.left))
            /\ Top.panic.valid_up_to = k

\* f left a valid non-zero byte, then an invalid sequence, then a byte
\* that is not 0 (as in the test invalid_utf8: 'a', 0xC0, 'c').
C3_Witness ==
    /\ Leaving /\ Top.fexit = "returned" /\ ~IsUtf8(Top.left)
    /\ LET k == from_utf8(Top.left).valid_up_to
       IN  /\ k >= 1 /\ Top.left[1] # 0
           /\ Len(Top.left) >= k + 2
           /\ Top.left[k + 2] # 0

\* C4: when f panics with payload M, wherever it stood and whatever it had
\* written, the panic that leaves with_str_bytes is M, unchanged, and every
\* byte of the string is 0.
C4_PanicZeroesAll ==
    (Active /\ Top.fexit = "panicked" /\ Top.pc # "unwinding") =>
        /\ Top.pc = "propagating"
        /\ Top.panic = Top.fmsg /\ Top.panic # NoMsg
        /\ AllZero(View) /\ Len(View) = Len(Top.pre)

\* f panicked leaving valid bytes that are not 0.
C4_Witness ==
    /\ Leaving /\ Top.fexit = "panicked"
    /\ Len(Top.left) >= 2 /\ IsUtf8(Top.left)
    /\ \A i \in 1..Len(Top.left) : Top.left[i] # 0

\* C5: one call raises at most one panic; when f panics and leaves invalid
\* UTF-8, drop validates nothing and raises no panic of its own.
C5_AtMostOneFailure ==
    Active =>
        /\ Top.raises <= 1
        /\ Top.pc # "aborted"
        /\ Top.fexit = "panicked" =>
             /\ Top.validated = "no" /\ ~Top.violation
             /\ Top.raises = 1

\* f panicked leaving invalid UTF-8, and the drop is over.
C5_Witness ==
    /\ Leaving /\ Top.fexit = "panicked" /\ ~IsUtf8(Top.left)
\* C6: the Guard raises its panic exactly when f returned (panicking is
\* false) and the bytes f left are not valid UTF-8; never while panicking is
\* true, never when the bytes are valid.
C6_ViolationIffCompletedInvalid ==
    /\ Dropped =>
         (Top.violation <=> (Top.fexit = "returned" /\ ~IsUtf8(Top.left)))
    /\ (Active /\ (Top.violation \/ Top.pc = "drop_panic")) =>
         /\ ~Top.panicking
         /\ Top.fexit = "returned"
         /\ ~IsUtf8(Top.left)

\* The Guard raised its panic.
C6_Witness ==
    /\ Leaving /\ Top.violation /\ ~Top.panicking
    /\ Top.panic = InvalidMsg(Top.err) /\ ~Top.err.ok

\* C7: when f returns without having changed a byte, no panic is raised and
\* the string is, bit for bit, what it was before the call; for the empty
\* string the view f gets is empty and the string stays empty.
C7_UnchangedStaysUnchanged ==
    /\ (Dropped /\ Top.fexit = "returned" /\ Top.left = Top.pre) =>
         /\ Top.pc = "returning"
         /\ Top.raises = 0 /\ ~Top.violation
         /\ View = Top.pre
    /\ (Active /\ Top.pre = <<>>) => View = <<>>

\* f returned leaving a string with a multi-byte character as it was.
C7_Witness ==
    /\ Leaving /\ Top.fexit = "returned" /\ Top.left = Top.pre
    /\ Len(Top.pre) >= 2 /\ Top.pre[1] >= 128

\* C8: in every call f is called exactly once, after the Guard is built and
\* before its drop runs: not yet while the frame is at "guarded", once from
\* then on, and f is never inside again once it returned or panicked.
C8_TransformCalledOnce ==
    Active =>
        /\ Top.fcalls = IF Top.pc = "guarded" THEN 0 ELSE 1
        /\ Top.pc \in {"guarded", "in_f"} <=> Top.fexit = "none"
        /\ Top.pc \in {"guarded", "in_f"} => Top.drops = 0
        /\ Top.drops > 0 => (Top.fcalls = 1 /\ Top.fexit # "none")

\* A call is left: f was called once, and before the drop.
C8_Witness ==
    /\ Leaving /\ Top.fcalls = 1 /\ Top.drops = 1 /\ Top.fexit = "returned"

\* C9: with_str_bytes returns a value only after drop validated the bytes,
\* with success, after the end of f: the bytes returned are those
\* validated, which are those f left.
C9_ReturnOnlyAfterValidation ==
    /\ (Active /\ Top.pc = "returning") =>
         /\ Top.validated = "passed"
         /\ Top.fexit = "returned"
         /\ View = Top.left /\ IsUtf8(View)
    /\ (Active /\ Top.validated # "no") => Top.fexit = "returned"
    /\ outcome.kind = "returned" => (~Active /\ outcome.ret \in RetValues)

\* A value is about to be returned for bytes f changed.
C9_Witness ==
    /\ Active /\ Top.pc = "returning" /\ Top.validated = "passed"
    /\ Top.left # Top.pre

\* C10: the drop of the Guard runs exactly once per call, after a return of
\* f as after a panic of f, and before control leaves with_str_bytes.
C10_DropRunsOnce ==
    Active =>
        /\ Top.drops = IF Top.pc \in {"guarded", "in_f", "f_returned",
                                      "scope_exit", "unwinding"}
                       THEN 0 ELSE 1
        /\ Leaving => Top.drops = 1

\* The drop ran once while the panic of f unwound.
C10_Witness ==
    /\ Leaving /\ Top.fexit = "panicked" /\ Top.drops = 1
\* C11: when the bytes f left are invalid, drop has zeroed the tail from
\* offset k before it raises its panic: at the panic! and from then on the
\* string is valid UTF-8, the prefix f left followed by NUL bytes.
C11_ZeroFillBeforePanic ==
    (Active /\ (Top.pc = "drop_panic" \/ Top.violation)) =>
        /\ IsUtf8(View)
        /\ View = [i \in 1..Len(Top.left) |->
                     IF i <= Top.err.valid_up_to THEN Top.left[i] ELSE 0]
        /\ Top.pc = "drop_panic" => (Top.raises = 0 /\ Top.panic = NoMsg)

\* drop stands at its panic!, which is not raised yet, after f left an
\* invalid sequence that was not NUL bytes.
C11_Witness ==
    /\ Active /\ Top.pc = "drop_panic" /\ Top.raises = 0
    /\ ~IsUtf8(Top.left) /\ View # Top.left

\* C12: panicking is true from the construction of the Guard, becomes false
\* only by the step after the return of f, and stays false; so when drop
\* runs, and after it, panicking is false exactly if f returned.
C12_PanickingUntilCompleted ==
    \A d \in 1..Depth :
        LET fr == stack[d]
        IN  /\ fr.panicking <=>
                 ~(fr.fexit = "returned" /\ fr.pc # "f_returned")
            /\ fr.pc \in {"guarded", "in_f", "f_returned", "unwinding"}
                 => fr.panicking
            /\ fr.pc \in {"scope_exit", "drop_panic", "returning",
                          "propagating", "aborted"}
                 => (~fr.panicking <=> fr.fexit = "returned")

\* drop is about to run with panicking false.
C12_Witness ==
    /\ InDrop /\ ~Top.panicking /\ Top.fexit = "returned"

\* C13: the string has the same number of bytes before the call, while f
\* runs, when f ends and after drop, on every way out: neither f nor the
\* fills of drop add or remove a byte.
C13_LengthFixed ==
    /\ \A d \in 1..Depth :
         /\ Len(bufs[stack[d].s]) = Len(stack[d].pre)
         /\ stack[d].fexit # "none" => Len(stack[d].left) = Len(stack[d].pre)
    /\ \A b \in Buffers : Len(bufs[b]) <= MaxLen

\* drop zeroed a tail that is shorter than the string, and the call is left.
C13_Witness ==
    /\ Leaving /\ Top.violation
    /\ Top.err.valid_up_to >= 1 /\ Len(View) >= 2
    /\ Len(View) = Len(Top.pre)
\* C15: whatever way a call was left, the string it leaves is a valid
\* argument of the next call: every call starts on valid UTF-8 (all NUL
\* after a panic of f), and a next call whose f changes nothing returns its
\* value, raises no panic and leaves the string as the call before left it.
C15_ExitStateIsValidEntry ==
    Active =>
        /\ IsUtf8(Top.pre)
        /\ Top.after = "propagated" => AllZero(Top.pre)
        /\ (Dropped /\ Top.fexit = "returned" /\ Top.left = Top.pre) =>
             /\ Top.pc = "returning"
             /\ Top.raises = 0 /\ Top.validated = "passed"
             /\ View = Top.pre

\* A call on a string that the Guard of the call before had sanitised,
\* keeping a prefix, is left by a return with the string unchanged.
C15_Witness ==
    /\ Leaving /\ Top.after = "violation"
    /\ Top.fexit = "returned" /\ Top.left = Top.pre
    /\ Top.pc = "returning" /\ View = Top.pre
    /\ Len(Top.pre) >= 2 /\ Top.pre[1] # 0 /\ Top.pre[Len(Top.pre)] = 0
\* What a call leaves in its string, by the way f ended and the bytes f
\* left: those bytes if f returned and they are valid; their valid prefix
\* followed by NUL bytes if f returned and they are not; NUL bytes if f
\* panicked.
FinalBytes(fr) ==
    [i \in 1..Len(fr.left) |->
       IF fr.fexit = "panicked" THEN 0
       ELSE IF IsUtf8(fr.left) THEN fr.left[i]
       ELSE IF i <= from_utf8(fr.left).valid_up_to THEN fr.left[i]
       ELSE 0]

\* C14: when f, called on string A, calls with_str_bytes on another string
\* B, every step of a call - the stores of its f, the fills of its Guard -
\* changes the bytes of its own string only, so the inner call leaves A as
\* it was; and what a call leaves in its string follows from its own way
\* out alone.
C14_NestedCallsAreIsolated ==
    /\ [][Active => \A b \in Buffers \ {Top.s} : bufs'[b] = bufs[b]]_vars
    /\ [](Dropped => View = FinalBytes(Top))

\* The Guard of the inner call has zeroed its string while the outer call,
\* still inside f, holds bytes that f wrote and that are not NUL.
C14_Witness ==
    /\ Depth = 2 /\ Leaving /\ Top.violation
    /\ Top.left # View
    /\ stack[1].pc = "in_f" /\ stack[1].s # Top.s
    /\ bufs[stack[1].s] # stack[1].pre
    /\ ~AllZero(bufs[stack[1].s])

\* C16: when a call made by f ends with a panic (of its Guard, or of its
\* own f) that f does not catch, the outer call goes the way of a panic of
\* f: its string is all NUL, even when every byte f had written was valid,
\* and the panic that leaves the outer call is the inner one, unchanged.
C16_InnerFailureAbortsOuter ==
    (Active /\ Top.inner # NoMsg /\ Top.pc # "unwinding") =>
        /\ Top.pc = "propagating"
        /\ Top.fexit = "panicked"
        /\ Top.panic = Top.inner
        /\ Top.raises = 1 /\ ~Top.violation /\ Top.validated = "no"
        /\ AllZero(View) /\ Len(View) = Len(Top.pre)

\* The outer f had written valid bytes that are not NUL when the panic of
\* the inner Guard came through it, and the outer call is left.
C16_Witness ==
    /\ Depth = 1 /\ Leaving /\ Top.inner = Top.panic
    /\ Top.inner.text = InvalidMsg(Utf8Ok).text
    /\ IsUtf8(Top.left) /\ ~AllZero(Top.left) /\ Top.left # Top.pre
    /\ AllZero(View)
\* The length of the longest prefix of bytes that is valid UTF-8.
LongestValidPrefix(bytes) ==
    CHOOSE j \in 0..Len(bytes) :
        /\ IsUtf8(SubSeq(bytes, 1, j))
        /\ \A m \in (j + 1)..Len(bytes) : ~IsUtf8(SubSeq(bytes, 1, m))

\* bytes end in a multi-byte sequence that is cut short: what precedes the
\* offset j is valid, the byte at j announces more bytes than are left, and
\* only continuation bytes follow it.
EndsTruncatedAt(bytes, j) ==
    /\ j < Len(bytes)
    /\ IsUtf8(SubSeq(bytes, 1, j))
    /\ Utf8CharWidth(bytes[j + 1]) > Len(bytes) - j
    /\ \A i \in (j + 2)..Len(bytes) : IsCont(bytes[i])

\* C17: when the Guard panics, the offset k it zeroes from is the length of
\* the longest valid prefix of the bytes f left, and k is less than their
\* length; when those bytes end in a cut-short multi-byte sequence, k is the
\* offset of its lead byte, so that the lead byte and what follows are
\* zeroed; the prefix kept is valid UTF-8, it ends between two characters.
C17_FillOffsetIsLongestValidPrefix ==
    (Active /\ (Top.pc = "drop_panic" \/ Top.violation)) =>
        LET k == LongestValidPrefix(Top.left)
            n == Len(Top.left)
        IN  /\ k < n
            /\ Top.err.valid_up_to = k
            /\ View = [i \in 1..n |-> IF i <= k THEN Top.left[i] ELSE 0]
            /\ IsUtf8(SubSeq(View, 1, k))
            /\ \A j \in 0..(n - 1) :
                 EndsTruncatedAt(Top.left, j) =>
                     /\ k = j
                     /\ \A i \in (j + 1)..n : View[i] = 0

\* f left a character, then the first two bytes of a three-byte sequence
\* at the end of the string; the Guard panicked.
C17_Witness ==
    /\ Leaving /\ Top.violation /\ Top.err.error_len = 0
    /\ \E j \in 1..Len(Top.left) :
         /\ EndsTruncatedAt(Top.left, j)
         /\ Len(Top.left) - j >= 2
         /\ Top.left[1] # 0
         /\ View[j + 1] = 0 /\ View[1] = Top.left[1]

====
